---- MODULE Spec2Model ----
(***************************************************************************)
(* getStockInfo.py: per-security attribute resolution (price, EPS, BPS,    *)
(* dividend history, trailing dividend yield) and the batch loop of main.  *)
(*                                                                         *)
(* Encoding of Python values:                                              *)
(*   str            a code is a sequence of ASCII character codes; as an   *)
(*                  argument or a dict value a string is <<"str", s>>      *)
(*   None           <<"None">>                                             *)
(*   float x        <<"float", x>>; a yield is held in hundredths of a     *)
(*                  percent, so round(y, 2) is an integer here             *)
(*   DataFrame      <<"DataFrame", rows>>, rows a sequence of              *)
(*                  [PayDate, Dividend]; the empty frame has rows = <<>>   *)
(*   dict           a sequence of <<key, value>> pairs in insertion order  *)
(* A provider answer is a record [raises, value]: the call either raises   *)
(* or returns value.                                                       *)
(***************************************************************************)
EXTENDS Integers, Sequences, FiniteSets, TLC

VARIABLES
    args,     \* the parsed command line of main (or the arguments of a call)
    pc,       \* position of the running operation
    codes,    \* main: the list of codes being built / iterated
    idx,      \* main: number of codes already processed by the loop
    out,      \* main: console blocks printed so far
    rows,     \* main: rows collected for the CSV
    diag,     \* diagnostics printed so far (warnings and errors)
    prov,     \* the provider answers drawn for the queries of the last call
    ret,      \* the value returned by the last call
    queries   \* the provider queries issued by the last call, in order

vars == <<args, pc, codes, idx, out, rows, diag, prov, ret, queries>>

-----------------------------------------------------------------------------
(* Python values *)

None == <<"None">>
Str(s) == <<"str", s>>
PyFloat(x) == <<"float", x>>
DataFrame(r) == <<"DataFrame", r>>
EmptyFrame == DataFrame(<<>>)
IsEmptyFrame(df) == Len(df[2]) = 0

Raises == [raises |-> TRUE, value |-> <<>>]
Returns(v) == [raises |-> FALSE, value |-> v]
Unused == [raises |-> FALSE, value |-> <<"unused">>]

\* character codes
SP == 32
DOT == 46
CH_T == 84
IsDigitChar(c) == c \in 48..57

\* variant: a single digit anywhere is enough
isdigit_any(s) == \E i \in 1..Len(s) : IsDigitChar(s[i])

\* str.isdigit(): non-empty and every character a digit (identifiers are
\* ASCII here, where the digits are 0-9)
isdigit(s) == Len(s) > 0 /\ \A i \in 1..Len(s) : IsDigitChar(s[i])

\* str.strip(): drop leading and trailing whitespace
RECURSIVE lstrip(_)
lstrip(s) == IF Len(s) > 0 /\ s[1] = SP THEN lstrip(Tail(s)) ELSE s
RECURSIVE rstrip(_)
rstrip(s) == IF Len(s) > 0 /\ s[Len(s)] = SP
             THEN rstrip(SubSeq(s, 1, Len(s) - 1)) ELSE s
strip(s) == rstrip(lstrip(s))

\* str.__lt__: lexicographic order on character codes
RECURSIVE StrLess(_, _)
StrLess(a, b) ==
    IF Len(b) = 0 THEN FALSE
    ELSE IF Len(a) = 0 THEN TRUE
    ELSE IF a[1] # b[1] THEN a[1] < b[1]
    ELSE StrLess(Tail(a), Tail(b))

\* truthiness of an Optional[str] argument: None and "" are falsy
Truthy(m) == m # None /\ m # Str("")

-----------------------------------------------------------------------------
(* Low-level API *)

_infer_market(code) == IF isdigit(code) THEN Str("TSE") ELSE Str("US")

\* the provider key, or a raised ValueError for an unsupported market
_yf_ticker(code, market) ==
    LET mkt == IF Truthy(market) THEN market ELSE _infer_market(code)
    IN  IF mkt = Str("TSE") THEN Returns(code \o <<DOT, CH_T>>)
        ELSE IF mkt = Str("US") THEN Returns(code)
        ELSE Raises

\* Every resolver returns [val, q, log]: the value, the provider queries it
\* issued and the diagnostics it printed.
Result(v, q, l) == [val |-> v, q |-> q, log |-> l]

\* whether a resolver printed an error (a provider call raised)
HasError(log) == \E i \in 1..Len(log) : log[i][1] = "Error"

\* variant: a failed price query is tried a second time
_latest_close_retry(code, market, b) ==
    LET t == _yf_ticker(code, market)
    IN  IF t.raises THEN Result(None, <<>>, << <<"Error", "close">> >>)
        ELSE LET q == << <<"history", t.value>> >>
             IN  IF b.raises THEN Result(None, q \o q, << <<"Error", "close">> >>)
                 ELSE IF Len(b.value) = 0
                      THEN Result(None, q, << <<"Warning", "close">> >>)
                 ELSE Result(PyFloat(b.value[Len(b.value)]), q, <<>>)

\* b: the answer of history(period="1d"): raises, or a sequence of closes
_latest_close(code, market, b) ==
    LET t == _yf_ticker(code, market)
    IN  IF t.raises THEN Result(None, <<>>, << <<"Error", "close">> >>)
        ELSE LET q == << <<"history", t.value>> >>
             IN  IF b.raises THEN Result(None, q, << <<"Error", "close">> >>)
                 ELSE IF Len(b.value) = 0
                      THEN Result(None, q, << <<"Warning", "close">> >>)
                 ELSE Result(PyFloat(b.value[Len(b.value)]), q, <<>>)

\* dict.get(k): the value under k, None when k is missing
DictGet(info, k) == IF k \in DOMAIN info THEN info[k] ELSE None

\* float(v) of a numeric provider value
ToFloat(v) == PyFloat(v[2])

\* variant: the candidate is tested for truth, so a value of 0 is passed over
RECURSIVE FirstKey_truthy(_, _)
FirstKey_truthy(info, keys) ==
    IF Len(keys) = 0 THEN None
    ELSE IF DictGet(info, Head(keys)) \notin {None, <<"num", 0>>}
         THEN ToFloat(DictGet(info, Head(keys)))
    ELSE FirstKey_truthy(info, Tail(keys))

\* the for loop over the candidate keys: first non-None value wins
RECURSIVE FirstKey(_, _)
FirstKey(info, keys) ==
    IF Len(keys) = 0 THEN None
    ELSE IF DictGet(info, Head(keys)) # None
         THEN ToFloat(DictGet(info, Head(keys)))
    ELSE FirstKey(info, Tail(keys))

EpsKeys == <<"trailingEps", "epsTrailingTwelveMonths", "forwardEps">>
BpsKeys == <<"bookValuePerShare", "bookValue">>

\* b: the answer of .info: raises, or a mapping from field names to values
InfoAttr(code, market, b, keys, name) ==
    LET t == _yf_ticker(code, market)
    IN  IF t.raises THEN Result(None, <<>>, << <<"Error", name>> >>)
        ELSE LET q == << <<"info", t.value>> >>
             IN  IF b.raises THEN Result(None, q, << <<"Error", name>> >>)
                 ELSE LET v == FirstKey(b.value, keys)
                      IN  IF v = None
                          THEN Result(None, q, << <<"Warning", name>> >>)
                          ELSE Result(v, q, <<>>)

_eps(code, market, b) == InfoAttr(code, market, b, EpsKeys, "eps")

_bps(code, market, b) == InfoAttr(code, market, b, BpsKeys, "bps")

\* variant: a failed dividend query is reported as None
_dividends_none(code, market, b) ==
    LET t == _yf_ticker(code, market)
    IN  IF t.raises THEN Result(None, <<>>, << <<"Error", "div">> >>)
        ELSE LET q == << <<"dividends", t.value>> >>
             IN  IF b.raises THEN Result(None, q, << <<"Error", "div">> >>)
                 ELSE IF Len(b.value) = 0
                      THEN Result(EmptyFrame, q, << <<"Warning", "div">> >>)
                 ELSE Result(DataFrame(b.value), q, <<>>)

\* b: the answer of .dividends: raises, or a chronological series of events
_dividends(code, market, b) ==
    LET t == _yf_ticker(code, market)
    IN  IF t.raises THEN Result(EmptyFrame, <<>>, << <<"Error", "div">> >>)
        ELSE LET q == << <<"dividends", t.value>> >>
             IN  IF b.raises THEN Result(EmptyFrame, q, << <<"Error", "div">> >>)
                 ELSE IF Len(b.value) = 0
                      THEN Result(EmptyFrame, q, << <<"Warning", "div">> >>)
                 ELSE Result(DataFrame(b.value), q, <<>>)

\* the trailing window of _yield, in days
YearDays == 365

\* Series.sum() of the Dividend column
RECURSIVE SumDividend(_)
SumDividend(r) == IF Len(r) = 0 THEN 0 ELSE Head(r).Dividend + SumDividend(Tail(r))

\* variant: no window, every event of the series counts
Recent_all(r, one_year_ago) == r

\* the boolean-mask selection dividends[dividends["PayDate"] >= one_year_ago]
Recent(r, one_year_ago) == SelectSeq(r, LAMBDA e : e.PayDate >= one_year_ago)

\* round(n / d * 100, 2) in hundredths of a percent: the nearest integer to
\* n * 10000 / d, an exact tie going to the even neighbour (d > 0, n >= 0)
Round2Percent(n, d) ==
    LET num == n * 10000
        lo  == num \div d
        rem == num % d
    IN  IF 2 * rem < d THEN lo
        ELSE IF 2 * rem > d THEN lo + 1
        ELSE IF lo % 2 = 0 THEN lo ELSE lo + 1

\* variant: an empty trailing window is treated like an empty series
_yield_window(code, market, now, bd, bc) ==
    LET d == _dividends(code, market, bd)
    IN  IF IsEmptyFrame(d.val) \/ Len(Recent(d.val[2], now - YearDays)) = 0
        THEN Result(None, d.q, d.log \o << <<"Warning", "yield">> >>)
        ELSE LET total_dividends == SumDividend(Recent(d.val[2], now - YearDays))
                 c               == _latest_close(code, market, bc)
             IN  IF c.val = None \/ c.val = PyFloat(0)
                 THEN Result(None, d.q \o c.q,
                             d.log \o c.log \o << <<"Warning", "yield">> >>)
                 ELSE Result(PyFloat(Round2Percent(total_dividends, c.val[2])),
                             d.q \o c.q, d.log \o c.log)

\* now: the evaluation instant (a day number); bd, bc: the provider's answers
\* to the dividend query and to the price query of the yield
_yield(code, market, now, bd, bc) ==
    LET d == _dividends(code, market, bd)
    IN  IF IsEmptyFrame(d.val)
        THEN Result(None, d.q, d.log \o << <<"Warning", "yield">> >>)
        ELSE LET one_year_ago    == now - YearDays
                 total_dividends == SumDividend(Recent(d.val[2], one_year_ago))
                 c               == _latest_close(code, market, bc)
             IN  IF c.val = None \/ c.val = PyFloat(0)
                 THEN Result(None, d.q \o c.q,
                             d.log \o c.log \o << <<"Warning", "yield">> >>)
                 ELSE Result(PyFloat(Round2Percent(total_dividends, c.val[2])),
                             d.q \o c.q, d.log \o c.log)

-----------------------------------------------------------------------------
(* High-level API *)

\* variant: the resolvers do not catch, so the first provider error ends the
\* try block of fetch and the attributes after it are never resolved
fetch_abort(code, market, want_price, want_eps, want_bps, want_div, want_div_yield, exclude_dividends, now, p) ==
    LET mkt == IF Truthy(market) THEN market ELSE _infer_market(code)
        r0  == [val |-> << <<"Code", Str(code)>>, <<"Market", mkt>> >>,
                q |-> <<>>, log |-> <<>>, dead |-> FALSE]
        Step(r, want, k, h) ==
            IF r.dead \/ ~want THEN r
            ELSE IF HasError(h.log)
                 THEN [r EXCEPT !.dead = TRUE, !.q = r.q \o h.q,
                                !.log = r.log \o h.log]
            ELSE [r EXCEPT !.val = Append(r.val, <<k, h.val>>),
                           !.q = r.q \o h.q, !.log = r.log \o h.log]
        r1  == Step(r0, want_price, "Price", _latest_close(code, mkt, p.closeP))
        r2  == Step(r1, want_eps, "EPS", _eps(code, mkt, p.infoE))
        r3  == Step(r2, want_bps, "BPS", _bps(code, mkt, p.infoB))
        r4  == Step(r3, want_div /\ ~exclude_dividends, "Dividends",
                    _dividends(code, mkt, p.divD))
        r5  == Step(r4, want_div_yield, "Yield",
                    _yield(code, mkt, now, p.divY, p.closeY))
    IN  Result(r5.val, r5.q, r5.log)

\* p: the provider's answers to the queries of one fetch, one per call site:
\* closeP (Price), infoE (EPS), infoB (BPS), divD (Dividends), divY and
\* closeY (the two queries of _yield)
fetch(code, market, want_price, want_eps, want_bps, want_div, want_div_yield, exclude_dividends, now, p) ==
    LET mkt == IF Truthy(market) THEN market ELSE _infer_market(code)
        r0  == Result(<< <<"Code", Str(code)>>, <<"Market", mkt>> >>, <<>>, <<>>)
        Put(r, k, h) == Result(Append(r.val, <<k, h.val>>), r.q \o h.q,
                               r.log \o h.log)
        r1  == IF want_price
               THEN Put(r0, "Price", _latest_close(code, mkt, p.closeP)) ELSE r0
        r2  == IF want_eps
               THEN Put(r1, "EPS", _eps(code, mkt, p.infoE)) ELSE r1
        r3  == IF want_bps
               THEN Put(r2, "BPS", _bps(code, mkt, p.infoB)) ELSE r2
        r4  == IF want_div /\ ~exclude_dividends
               THEN Put(r3, "Dividends", _dividends(code, mkt, p.divD)) ELSE r3
        r5  == IF want_div_yield
               THEN Put(r4, "Yield", _yield(code, mkt, now, p.divY, p.closeY))
               ELSE r4
    IN  r5

\* dict access on a record of fetch
HasKey(d, k) == \E i \in 1..Len(d) : d[i][1] = k
Get(d, k) == d[CHOOSE i \in 1..Len(d) : d[i][1] = k][2]
Keys(d) == [i \in 1..Len(d) |-> d[i][1]]

-----------------------------------------------------------------------------
(* CLI *)

\* the longest all-digit token _read_code_file keeps
MaxCodeLen == 5

\* variant: the length of a token is not checked
_read_code_file_nolimit(parts) ==
    LET raw == [i \in 1..Len(parts) |-> strip(parts[i])]
    IN  SelectSeq(raw, LAMBDA s : isdigit(s))

\* parts: the pieces of the file's text after splitlines() and split(",")
_read_code_file(parts) ==
    LET raw == [i \in 1..Len(parts) |-> strip(parts[i])]
    IN  SelectSeq(raw, LAMBDA s : isdigit(s) /\ Len(s) <= MaxCodeLen)

\* The statement that builds the list from the positional arguments is not in
\* the source; the direct tokens are taken trimmed and unfiltered.
DirectCodes(raw) == [i \in 1..Len(raw) |-> strip(raw[i])]

ToSet(seq) == {seq[i] : i \in 1..Len(seq)}

\* variant: the set is listed without sorting (here: in descending order)
RECURSIVE unsorted(_)
unsorted(S) ==
    IF S = {} THEN <<>>
    ELSE LET m == CHOOSE x \in S : \A y \in S \ {x} : StrLess(y, x)
         IN  <<m>> \o unsorted(S \ {m})

\* sorted(S) for a set of strings
RECURSIVE sorted(_)
sorted(S) ==
    IF S = {} THEN <<>>
    ELSE LET m == CHOOSE x \in S : \A y \in S \ {x} : StrLess(x, y)
         IN  <<m>> \o sorted(S \ {m})

\* the request flags of the command line
AnyFlag(a) == a.price \/ a.eps \/ a.bps \/ a.div \/ a.div_yield

\* the set of provider answers one fetch can meet: an answer for every call
\* site that fetch reaches under the flags (H: history answers, I: info
\* answers, D: dividend answers), Unused for the others
Answers(want_price, want_eps, want_bps, want_divs, want_div_yield, H, I, D) ==
    UNION {
        { [closeP |-> a, infoE |-> b, infoB |-> c, divD |-> d, divY |-> e,
           closeY |-> f] :
            a \in IF want_price THEN H ELSE {Unused},
            b \in IF want_eps THEN I ELSE {Unused},
            c \in IF want_bps THEN I ELSE {Unused},
            d \in IF want_divs THEN D ELSE {Unused},
            f \in IF want_div_yield /\ ~e.raises /\ Len(e.value) > 0
                  THEN H ELSE {Unused} } :
        e \in IF want_div_yield THEN D ELSE {Unused} }

\* main, from parse_args to sorted(set(codes)). The source repeats the two
\* statements that end the --file branch; they are taken once.
MainStart ==
    /\ pc = "main"
    /\ IF ~AnyFlag(args)
       THEN /\ pc' = "done"
            /\ diag' = Append(diag, <<"Info", "help">>)
            /\ UNCHANGED <<codes, ret>>
       ELSE LET direct == DirectCodes(args.codes)
                given  == args.file.kind # "none"
                cf     == IF given /\ args.file.kind = "file"
                          THEN _read_code_file(args.file.parts) ELSE <<>>
                all    == direct \o cf
            IN  IF given /\ args.file.kind = "missing"
                THEN pc' = "exit" /\ ret' = Str("SystemExit:not found")
                     /\ UNCHANGED <<codes, diag>>
                ELSE IF given /\ args.file.kind = "dir"
                THEN pc' = "exit" /\ ret' = Str("SystemExit:not a file")
                     /\ UNCHANGED <<codes, diag>>
                ELSE IF given /\ Len(cf) = 0
                THEN pc' = "exit" /\ ret' = Str("SystemExit:no code in file")
                     /\ UNCHANGED <<codes, diag>>
                ELSE IF Len(all) = 0
                THEN pc' = "exit" /\ ret' = Str("SystemExit:no codes")
                     /\ UNCHANGED <<codes, diag>>
                ELSE /\ codes' = sorted(ToSet(all))
                     /\ pc' = "loop"
                     /\ UNCHANGED <<ret, diag>>
    /\ UNCHANGED <<args, idx, out, rows, prov, queries>>

\* the lines of one console block: every key but Code and Market
BlockLines(data) ==
    LET shown == SelectSeq(data, LAMBDA kv : kv[1] \notin {"Code", "Market"})
    IN  [i \in 1..Len(shown) |->
            IF shown[i][1] = "Dividends" /\ IsEmptyFrame(shown[i][2])
            THEN <<"Dividends", Str("<no data>")>> ELSE shown[i]]

\* the CSV row of one record
CsvRow(data) == SelectSeq(data, LAMBDA kv : kv[1] # "Dividends")

\* one iteration of the loop of main over the sorted codes: the call of fetch
\* with exclude_dividends=bool(args.csv), the block headed by the code and
\* args.market, and the CSV row. (The source repeats the tail of the call and
\* the header line; they are taken once. Nothing in the body raises, so the
\* except branch is never entered.)
MainLoop(H, I, D) ==
    /\ pc = "loop"
    /\ idx < Len(codes)
    /\ LET code == codes[idx + 1]
           excl == args.csv
       IN  \E p \in Answers(args.price, args.eps, args.bps,
                            args.div /\ ~excl, args.div_yield, H, I, D) :
             LET data == fetch(code, args.market, args.price, args.eps,
                               args.bps, args.div, args.div_yield, excl,
                               args.now, p)
             IN  /\ out' = Append(out, [code |-> code, market |-> args.market,
                                        lines |-> BlockLines(data.val),
                                        data |-> data.val])
                 /\ rows' = IF args.csv THEN Append(rows, CsvRow(data.val))
                            ELSE rows
                 /\ diag' = diag \o data.log
                 /\ prov' = p
                 /\ queries' = data.q
    /\ idx' = idx + 1
    /\ UNCHANGED <<args, pc, codes, ret>>

\* after the loop: the CSV is written, or the write fails and is reported
MainSaveCsv ==
    /\ pc = "loop"
    /\ idx = Len(codes)
    /\ pc' = "done"
    /\ IF args.csv
       THEN \E ok \in BOOLEAN :
              IF ok THEN ret' = <<"csv", rows>> /\ diag' = Append(diag, <<"Info", "saved">>)
              ELSE ret' = ret /\ diag' = Append(diag, <<"Error", "csv">>)
       ELSE UNCHANGED <<ret, diag>>
    /\ UNCHANGED <<args, codes, idx, out, rows, prov, queries>>

-----------------------------------------------------------------------------
(* Calls of the resolvers, of _yield and of fetch on their own *)

NoAnswers == [closeP |-> Unused, infoE |-> Unused, infoB |-> Unused,
              divD |-> Unused, divY |-> Unused, closeY |-> Unused]

Returned(r, where) ==
    /\ ret' = r.val
    /\ queries' = r.q
    /\ diag' = r.log
    /\ pc' = where
    /\ UNCHANGED <<args, codes, idx, out, rows>>

CallLatestClose(H) ==
    /\ pc = "call"
    /\ \E b \in H : /\ prov' = [NoAnswers EXCEPT !.closeP = b]
                    /\ Returned(_latest_close(args.code, args.market, b), "close")

CallEps(I) ==
    /\ pc = "call"
    /\ \E b \in I : /\ prov' = [NoAnswers EXCEPT !.infoE = b]
                    /\ Returned(_eps(args.code, args.market, b), "eps")

CallBps(I) ==
    /\ pc = "call"
    /\ \E b \in I : /\ prov' = [NoAnswers EXCEPT !.infoB = b]
                    /\ Returned(_bps(args.code, args.market, b), "bps")

CallDividends(D) ==
    /\ pc = "call"
    /\ \E b \in D : /\ prov' = [NoAnswers EXCEPT !.divD = b]
                    /\ Returned(_dividends(args.code, args.market, b), "dividends")

CallYield(H, D) ==
    /\ pc = "call"
    /\ \E bd \in D, bc \in H :
          /\ prov' = [NoAnswers EXCEPT !.divY = bd, !.closeY = bc]
          /\ Returned(_yield(args.code, args.market, args.now, bd, bc), "yield")

CallFetch(H, I, D) ==
    /\ pc = "call"
    /\ \E p \in Answers(args.price, args.eps, args.bps,
                        args.div /\ ~args.exclude_dividends, args.div_yield,
                        H, I, D) :
          /\ prov' = p
          /\ Returned(fetch(args.code, args.market, args.price, args.eps,
                            args.bps, args.div, args.div_yield,
                            args.exclude_dividends, args.now, p), "fetched")

-----------------------------------------------------------------------------
(* Inputs *)

MaxDirect == 2
MaxFile == 1
MaxSeriesLen == 3

SeqsUpTo(S, n) == UNION {[1..k -> S] : k \in 0..n}

\* sample tokens: "7", "72", " 72 ", "12345", "123456", "A", "A1", "", " "
T7 == <<55>>
T72 == <<55, 50>>
TSp72 == <<SP, 55, 50, SP>>
T12345 == <<49, 50, 51, 52, 53>>
T123456 == <<49, 50, 51, 52, 53, 54>>
TA == <<65>>
TA1 == <<65, 49>>
TEmpty == <<>>
TBlank == <<SP>>
Tokens == {T72, TSp72, T12345, T123456, TA, TEmpty, TBlank}
BatchTokens == {T7, T72, TA}

NoFile == [kind |-> "none", parts |-> <<>>]
Files(T, n) ==
    {NoFile, [kind |-> "missing", parts |-> <<>>], [kind |-> "dir", parts |-> <<>>]}
    \cup {[kind |-> "file", parts |-> f] : f \in SeqsUpTo(T, n)}

\* the evaluation day and the pay dates around the edge of the window
Today == 3 * YearDays
EventDays == {Today - 400, Today - (YearDays + 1), Today - YearDays,
              Today - 100, Today - 10}
Amounts == {5, 10, 15}
Events == [PayDate : EventDays, Dividend : Amounts]
Chronological(r) == \A i, j \in 1..Len(r) : i < j => r[i].PayDate < r[j].PayDate
SeriesUpTo(n) == {r \in SeqsUpTo(Events, n) : Chronological(r)}

Num(x) == <<"num", x>>
InfoKeys == ToSet(EpsKeys) \cup ToSet(BpsKeys)
InfoValues == {None, Num(0), Num(1), Num(2)}
InfoMaps == UNION {[K -> InfoValues] : K \in SUBSET InfoKeys}

AllH == {Raises, Returns(<<>>), Returns(<<0>>), Returns(<<3>>), Returns(<<7>>),
         Returns(<<1000>>), Returns(<<3, 1000>>)}
AllI == {Raises} \cup {Returns(m) : m \in InfoMaps}
AllD == {Raises} \cup {Returns(r) : r \in SeriesUpTo(MaxSeriesLen)}

RecentEvent == [PayDate |-> Today - 10, Dividend |-> 5]
OldEvent == [PayDate |-> Today - 400, Dividend |-> 10]
FetchH == {Raises, Returns(<<>>), Returns(<<0>>), Returns(<<1000>>)}
FetchI == {Raises, Returns(<<>>),
           Returns([k \in {"forwardEps", "bookValue"} |->
                       IF k = "forwardEps" THEN Num(7) ELSE Num(3)])}
FetchD == {Raises, Returns(<<>>), Returns(<<OldEvent>>),
           Returns(<<OldEvent, RecentEvent>>)}

BatchH == {Raises, Returns(<<1000>>)}
BatchI == {Raises, Returns([k \in {"trailingEps", "bookValue"} |->
                               IF k = "trailingEps" THEN Num(7) ELSE Num(3)])}
BatchD == {Returns(<<>>), Returns(<<RecentEvent>>)}

Markets == {None, Str("TSE"), Str("US")}
Flags == [price : BOOLEAN, eps : BOOLEAN, bps : BOOLEAN, div : BOOLEAN,
          div_yield : BOOLEAN]
Flag(p, e, b, d, y) == [price |-> p, eps |-> e, bps |-> b, div |-> d, div_yield |-> y]
BatchFlags == {Flag(FALSE, FALSE, FALSE, FALSE, FALSE),
               Flag(TRUE, TRUE, FALSE, FALSE, FALSE),
               Flag(FALSE, FALSE, TRUE, FALSE, FALSE),
               Flag(FALSE, FALSE, FALSE, TRUE, FALSE),
               Flag(FALSE, FALSE, FALSE, FALSE, TRUE),
               Flag(FALSE, FALSE, FALSE, TRUE, TRUE)}

-----------------------------------------------------------------------------
(* Specifications *)

Idle ==
    /\ codes = <<>> /\ idx = 0 /\ out = <<>> /\ rows = <<>> /\ diag = <<>>
    /\ prov = NoAnswers /\ ret = None /\ queries = <<>>

MainArgs(T, FT, M, F) ==
    {[codes |-> c, file |-> fl, market |-> m, price |-> f.price, eps |-> f.eps,
      bps |-> f.bps, div |-> f.div, div_yield |-> f.div_yield, csv |-> v,
      now |-> Today] :
        c \in SeqsUpTo(T, MaxDirect), fl \in Files(FT, MaxFile),
        m \in M, f \in F, v \in BOOLEAN}

\* the batch run of main
Init ==
    /\ args \in MainArgs(BatchTokens, {TSp72, TA}, {None, Str("US")}, BatchFlags)
    /\ pc = "main" /\ Idle
Next == MainStart \/ MainLoop(BatchH, BatchI, BatchD) \/ MainSaveCsv
Spec == Init /\ [][Next]_vars

\* the normalisation of the identifiers, on the wide token set
InitNorm ==
    /\ args \in MainArgs(Tokens, Tokens, {None},
                        {f \in Flags : ~f.eps /\ ~f.bps /\ ~f.div /\ ~f.div_yield})
    /\ ~args.csv
    /\ pc = "main" /\ Idle
NextNorm == MainStart
SpecNorm == InitNorm /\ [][NextNorm]_vars

\* the resolvers, each called on its own
InitResolve ==
    /\ args \in [code : {T72, TA}, market : Markets \cup {Str("NYSE")}]
    /\ pc = "call" /\ Idle
NextResolve ==
    CallLatestClose(AllH) \/ CallEps(AllI) \/ CallBps(AllI) \/ CallDividends(AllD)
SpecResolve == InitResolve /\ [][NextResolve]_vars

\* _yield called on its own
InitYield ==
    /\ args \in [code : {T72, TA}, market : {None, Str("NYSE")}, now : {Today}]
    /\ pc = "call" /\ Idle
NextYield == CallYield(AllH, AllD)
SpecYield == InitYield /\ [][NextYield]_vars

\* fetch called on its own
InitFetch ==
    /\ args \in {[code |-> c, market |-> m, price |-> f.price, eps |-> f.eps,
                  bps |-> f.bps, div |-> f.div, div_yield |-> f.div_yield,
                  exclude_dividends |-> x, now |-> Today] :
                    c \in {T72, TA, TA1, TEmpty},
                    m \in Markets \cup {Str(""), Str("NYSE")},
                    f \in Flags, x \in BOOLEAN}
    /\ pc = "call" /\ Idle
NextFetch == CallFetch(FetchH, FetchI, FetchD)
SpecFetch == InitFetch /\ [][NextFetch]_vars

-----------------------------------------------------------------------------
(* Properties *)

\* the identifiers main is given: the trimmed direct tokens, and the trimmed
\* tokens of the file that are all-digit and at most five characters long
AllDecimalDigits(s) == s # <<>> /\ \A i \in 1..Len(s) : s[i] \in 48..57
GivenDirect == {strip(args.codes[i]) : i \in 1..Len(args.codes)}
GivenFromFile ==
    {t \in {strip(args.file.parts[i]) : i \in 1..Len(args.file.parts)} :
        AllDecimalDigits(t) /\ Len(t) <= 5}
GivenCodes == GivenDirect \cup GivenFromFile
Ascending(c) == \A i, j \in 1..Len(c) : i < j => StrLess(c[i], c[j])

\* C1: the loop of main prints exactly one block per unique identifier, in
\* ascending identifier order, whatever the data source answers: while the
\* loop runs the blocks printed are those of the first idx codes, and when
\* main is done there is one block for each identifier given, none twice.
C1_OneBlockPerCodeSorted ==
    (pc \in {"loop", "done"} /\ AnyFlag(args)) =>
        /\ Len(out) = idx
        /\ \A i \in 1..Len(out) : out[i].code = codes[i]
                                  /\ Get(out[i].data, "Code") = Str(codes[i])
        /\ Ascending(codes)
        /\ ToSet(codes) = GivenCodes
        /\ pc = "done" => /\ Len(out) = Cardinality(GivenCodes)
                          /\ {out[i].code : i \in 1..Len(out)} = GivenCodes
                          /\ Ascending([i \in 1..Len(out) |-> out[i].code])

\* C1 witness: a finished run over three identifiers given out of order, in
\* which a provider query raised
C1_Witness ==
    /\ pc = "done" /\ Len(out) = 3
    /\ Len(args.codes) >= 2 /\ StrLess(strip(args.codes[2]), strip(args.codes[1]))
    /\ HasError(diag)

\* C2: the Market of the record of fetch is the explicit market when one is
\* supplied, whatever the identifier looks like; with no market supplied it
\* is TSE exactly when the identifier consists solely of decimal digits and
\* US otherwise; the record always has a Market.
C2_MarketResolution ==
    pc = "fetched" =>
        /\ HasKey(ret, "Market")
        /\ IF args.market \in {None, Str("")}
           THEN Get(ret, "Market") =
                    IF AllDecimalDigits(args.code) THEN Str("TSE") ELSE Str("US")
           ELSE Get(ret, "Market") = args.market

\* C2 witness: an explicit US on an all-digit identifier, and an inferred
\* market on a mixed identifier
C2_Witness ==
    /\ pc = "fetched"
    /\ \/ args.market = Str("US") /\ args.code = T72
          /\ Get(ret, "Market") = Str("US")
       \/ args.market = None /\ args.code = TA1 /\ Get(ret, "Market") = Str("US")

\* the first candidate key that is present with a non-null value
Present(info, k) == k \in DOMAIN info /\ info[k] # None
FirstPresent(info, keys) ==
    CHOOSE i \in 1..Len(keys) :
        Present(info, keys[i]) /\ \A j \in 1..(i - 1) : ~Present(info, keys[j])
Resolved(info, keys, r) ==
    IF \E i \in 1..Len(keys) : Present(info, keys[i])
    THEN r = PyFloat(info[keys[FirstPresent(info, keys)]][2])
    ELSE r = None

\* C3: for every mapping of descriptive fields, EPS is the value of the first
\* of trailingEps, epsTrailingTwelveMonths, forwardEps that is present and
\* not null, BPS the value of the first such of bookValuePerShare, bookValue;
\* a value of 0 counts as present, and the attribute is absent exactly when
\* no candidate has a non-null value.
C3_FallbackOrder ==
    /\ (pc = "eps" /\ Len(queries) = 1 /\ ~prov.infoE.raises) =>
          Resolved(prov.infoE.value,
                   <<"trailingEps", "epsTrailingTwelveMonths", "forwardEps">>, ret)
    /\ (pc = "bps" /\ Len(queries) = 1 /\ ~prov.infoB.raises) =>
          Resolved(prov.infoB.value, <<"bookValuePerShare", "bookValue">>, ret)

\* C3 witness: trailingEps is null, epsTrailingTwelveMonths is 0 and
\* forwardEps is 2; EPS resolves to 0
C3_Witness ==
    /\ pc = "eps" /\ ~prov.infoE.raises
    /\ DOMAIN prov.infoE.value = {"trailingEps", "epsTrailingTwelveMonths", "forwardEps"}
    /\ prov.infoE.value["trailingEps"] = None
    /\ prov.infoE.value["epsTrailingTwelveMonths"] = Num(0)
    /\ prov.infoE.value["forwardEps"] = Num(2)
    /\ ret = PyFloat(0)

\* the events of a series paid within the 365 days ending at the evaluation
\* instant, and the sum of their amounts
InWindow(e) == args.now - 365 <= e.PayDate /\ e.PayDate <= args.now
RECURSIVE WindowSum(_)
WindowSum(r) ==
    IF r = <<>> THEN 0
    ELSE (IF InWindow(Head(r)) THEN Head(r).Dividend ELSE 0) + WindowSum(Tail(r))
\* r is n / d * 100 rounded to two decimals, in hundredths
NearestPercent(r, n, d) ==
    LET diff == r * d - n * 10000
    IN  2 * (IF diff < 0 THEN 0 - diff ELSE diff) <= d
Supported == args.market \in {None, Str(""), Str("TSE"), Str("US")}
SeriesEmpty(b) == b.raises \/ Len(b.value) = 0
PriceAbsent(b) == b.raises \/ Len(b.value) = 0
PriceZero(b) == ~PriceAbsent(b) /\ b.value[Len(b.value)] = 0

\* C4: for a non-empty dividend series and a latest price that is present and
\* not zero, the yield is round(S / price * 100, 2), S being the sum of the
\* amounts of exactly the events paid within the 365 days ending at the
\* evaluation instant.
C4_YieldOverTrailingYear ==
    (/\ pc = "yield" /\ Supported
     /\ ~SeriesEmpty(prov.divY)
     /\ ~PriceAbsent(prov.closeY) /\ ~PriceZero(prov.closeY)) =>
        /\ ret # None
        /\ NearestPercent(ret[2], WindowSum(prov.divY.value),
                          prov.closeY.value[Len(prov.closeY.value)])

\* C4 witness: events 400, 100 and 10 days ago of 10, 15 and 5 at a price of
\* 1000 give 2.00
C4_Witness ==
    /\ pc = "yield"
    /\ prov.divY = Returns(<< [PayDate |-> args.now - 400, Dividend |-> 10],
                              [PayDate |-> args.now - 100, Dividend |-> 15],
                              [PayDate |-> args.now - 10, Dividend |-> 5] >>)
    /\ prov.closeY = Returns(<<1000>>)
    /\ ret = PyFloat(200)

\* C5: the yield is absent exactly when the dividend series the resolver
\* delivers is empty, or the latest price is absent, or the latest price is
\* zero; with a non-empty series, a usable price and no event in the trailing
\* window the yield is 0.00.
C5_YieldAbsence ==
    pc = "yield" =>
        LET noSeries == ~Supported \/ SeriesEmpty(prov.divY)
            noPrice  == PriceAbsent(prov.closeY) \/ PriceZero(prov.closeY)
        IN  /\ ret = None <=> (noSeries \/ noPrice)
            /\ (/\ ~noSeries /\ ~noPrice
                /\ \A i \in 1..Len(prov.divY.value) : ~InWindow(prov.divY.value[i]))
               => ret = PyFloat(0)

\* C5 witness: a series whose only events are older than the window, at a
\* price of 1000, yields 0.00
C5_Witness ==
    /\ pc = "yield"
    /\ prov.divY = Returns(<< [PayDate |-> args.now - 400, Dividend |-> 10],
                              [PayDate |-> args.now - 366, Dividend |-> 5] >>)
    /\ prov.closeY = Returns(<<1000>>)
    /\ ret = PyFloat(0)

\* the attributes fetch resolves under its arguments, and their call sites
Wanted(a) ==
    CASE a = "Price" -> args.price
      [] a = "EPS" -> args.eps
      [] a = "BPS" -> args.bps
      [] a = "Dividends" -> args.div /\ ~args.exclude_dividends
      [] a = "Yield" -> args.div_yield
Attributes == {"Price", "EPS", "BPS", "Dividends", "Yield"}
QueryFaulted(a) ==
    \/ ~Supported
    \/ CASE a = "Price" -> prov.closeP.raises
         [] a = "EPS" -> prov.infoE.raises
         [] a = "BPS" -> prov.infoB.raises
         [] a = "Dividends" -> prov.divD.raises
         [] a = "Yield" -> prov.divY.raises \/ prov.closeY.raises
\* the answers of prov at the call sites of a, every other query answered
\* without a fault
Healthy == [closeP |-> Returns(<<1000>>), infoE |-> Returns(<<>>),
            infoB |-> Returns(<<>>), divD |-> Returns(<<RecentEvent>>),
            divY |-> Returns(<<RecentEvent>>), closeY |-> Returns(<<1000>>)]
OthersHealthy(a) ==
    CASE a = "Price" -> [Healthy EXCEPT !.closeP = prov.closeP]
      [] a = "EPS" -> [Healthy EXCEPT !.infoE = prov.infoE]
      [] a = "BPS" -> [Healthy EXCEPT !.infoB = prov.infoB]
      [] a = "Dividends" -> [Healthy EXCEPT !.divD = prov.divD]
      [] a = "Yield" -> [Healthy EXCEPT !.divY = prov.divY, !.closeY = prov.closeY]
FetchWith(p) ==
    fetch(args.code, args.market, TRUE, TRUE, TRUE, TRUE, TRUE, FALSE,
          args.now, p).val

\* C6 as stated: every requested attribute whose query faults is absent.
C6_Original ==
    pc = "fetched" =>
        \A a \in Attributes :
            (Wanted(a) /\ QueryFaulted(a)) => /\ HasKey(ret, a)
                                              /\ Get(ret, a) = None

\* C6 amended: fetch returns a record with every requested attribute; a
\* requested attribute whose query succeeds has the value it has when no
\* other query faults; Price, EPS, BPS and Yield are None when their query
\* faults, and Dividends is then the empty frame.
C6_FaultIsolation ==
    pc = "fetched" =>
        \A a \in Attributes :
            Wanted(a) =>
                /\ HasKey(ret, a)
                /\ QueryFaulted(a) =>
                      Get(ret, a) = IF a = "Dividends" THEN EmptyFrame ELSE None
                /\ ~QueryFaulted(a) =>
                      Get(ret, a) = Get(FetchWith(OthersHealthy(a)), a)

\* C6 witness: Price, EPS and BPS requested, the EPS query alone faults;
\* Price and BPS are populated and EPS is None
C6_Witness ==
    /\ pc = "fetched" /\ args.price /\ args.eps /\ args.bps
    /\ prov.infoE.raises /\ ~prov.closeP.raises /\ ~prov.infoB.raises
    /\ Get(ret, "Price") = PyFloat(1000)
    /\ Get(ret, "EPS") = None
    /\ Get(ret, "BPS") = PyFloat(3)

\* C7 as stated: a failed dividend query gives None, a successful empty one
\* gives an empty sequence, and the two differ.
C7_Original ==
    pc = "dividends" =>
        /\ (Supported /\ prov.divD.raises) => ret = None
        /\ (Supported /\ ~prov.divD.raises /\ Len(prov.divD.value) = 0) =>
              ret = EmptyFrame

\* C7 amended: _dividends returns the empty frame both when the query
\* succeeds with no events and when it raises, so the two results are the
\* same value; only the diagnostic printed differs (a warning, or an error).
\* A non-empty series is returned as a frame of its events.
C7_EmptyFrameEitherWay ==
    pc = "dividends" =>
        LET failed == ~Supported \/ prov.divD.raises
        IN  /\ failed => ret = EmptyFrame /\ HasError(diag)
            /\ (~failed /\ Len(prov.divD.value) = 0) =>
                  ret = EmptyFrame /\ ~HasError(diag)
            /\ (~failed /\ Len(prov.divD.value) > 0) =>
                  ret = DataFrame(prov.divD.value)

\* C7 witness: the dividend query raised and the empty frame came back
C7_Witness ==
    pc = "dividends" /\ Supported /\ prov.divD.raises /\ ret = EmptyFrame

Count(kind) == Cardinality({i \in 1..Len(queries) : queries[i][1] = kind})
B(x) == IF x THEN 1 ELSE 0

\* C8 as stated: one fetch issues the price query at most once and the
\* dividend query at most once.
C8_Original ==
    pc = "fetched" => Count("history") <= 1 /\ Count("dividends") <= 1

\* C8 amended: one fetch issues each query once per attribute that needs it:
\* the price query once for Price and once more for Yield (when the series
\* of the yield is not empty), the dividend query once for Dividends and
\* once more for Yield, so each at most twice; the yield is computed from
\* its own two queries, not from the ones that populate Price and Dividends.
C8_OncePerAttribute ==
    pc = "fetched" =>
        /\ Count("history") =
              B(Supported /\ args.price)
              + B(Supported /\ args.div_yield /\ ~SeriesEmpty(prov.divY))
        /\ Count("dividends") =
              B(Supported /\ args.div /\ ~args.exclude_dividends)
              + B(Supported /\ args.div_yield)
        /\ Count("info") = B(Supported /\ args.eps) + B(Supported /\ args.bps)
        /\ Count("history") <= 2 /\ Count("dividends") <= 2
        /\ (args.div_yield /\ prov.closeY.raises) => Get(ret, "Yield") = None
        /\ (args.div_yield /\ SeriesEmpty(prov.divY)) => Get(ret, "Yield") = None

\* C8 witness: Price, Dividends and Yield requested; both queries are issued
\* twice, Price and Dividends are populated and the yield, whose own price
\* query raised, is None
C8_Witness ==
    /\ pc = "fetched" /\ args.price /\ args.div /\ args.div_yield
    /\ Count("history") = 2 /\ Count("dividends") = 2
    /\ Get(ret, "Price") = PyFloat(1000)
    /\ ~IsEmptyFrame(Get(ret, "Dividends"))
    /\ prov.closeY.raises /\ Get(ret, "Yield") = None

ReadableInput == args.file.kind \in {"none", "file"}

FlagOf(a) ==
    CASE a = "Price" -> args.price
      [] a = "EPS" -> args.eps
      [] a = "BPS" -> args.bps
      [] a = "Dividends" -> args.div
      [] a = "Yield" -> args.div_yield

\* C10: the record fetch produces in the loop of main has a field for an
\* attribute exactly when the attribute's flag is set, and the console block
\* has a line for every requested attribute, Dividends included.
C10_Original ==
    \A i \in 1..Len(out) :
        \A a \in Attributes :
            /\ HasKey(out[i].data, a) <=> FlagOf(a)
            /\ HasKey(out[i].lines, a) <=> FlagOf(a)

====
